---- MODULE Spec2Model ----
(***************************************************************************)
(* A model of the VRPC agent (src/vrpc/VrpcAgent.js): the broker session   *)
(* life cycle (serve, end, the mqtt client's events), the routing of       *)
(* incoming messages (_handleMessage, _handleClientInfoMessage) and the    *)
(* client/instance tracker (_unnamedInstances, _namedInstances).           *)
(*                                                                         *)
(* Strings are TLA+ strings; topics are built and taken apart as the code  *)
(* does it (template strings, split('/'), slice).  The JavaScript value    *)
(* undefined is written "undefined", which is also what a template string  *)
(* makes of it; no instance name of the model is spelled that way.         *)
(*                                                                         *)
(* VrpcAdapter (required at line 5 of VrpcAgent.js) is modelled from its   *)
(* contract in the specification, section 4.1: _call and the               *)
(* getAvailable... views.                                                  *)
(***************************************************************************)
EXTENDS Integers, Sequences, FiniteSets, TLC

(* ------------------------------------------------------------------ *)
(* Bounds and the inputs of the model                                  *)
(* ------------------------------------------------------------------ *)

\* how many anonymous instances the adapter creates in one run
MaxAnon == 1

\* how many calls with a deferred result the adapter takes in one run
MaxDeferred == 1

\* constructor arguments {domain, agent} of the agent the session and message
\* specifications run
domain == "d"
agent == "a"

\* the classes registered with the adapter, in registration order
ClassList == <<"Foo", "Bar">>
Classes == {ClassList[i] : i \in 1..Len(ClassList)}

\* the classes whose instances the callers of the model create and address
MsgClasses == {ClassList[1]}

\* names a caller passes to __createNamed__, __getNamed__ and __delete__
Names == {"alice"}

\* reply topics (json.sender) the callers choose; the agent treats them as
\* opaque.  The first has the three tokens of a VRPC client id, the second
\* is the first followed by "/__cli".
Senders == {"c/h/1", "c/h/1/__cli"}

Undefined == "undefined"

\* values passed as domain and as agent to the constructor
NameInputs == {Undefined, "", "d", "a", "ab", "a+b", "a/b", "a#b", "a*b"}

(* ------------------------------------------------------------------ *)
(* State                                                               *)
(* ------------------------------------------------------------------ *)

VARIABLES
  ctor,              \* the constructor's arguments, its outcome (state, error) and
                     \* whether VrpcAdapter.onCallback has installed the sink
  deferred,          \* the adapter's deferred results: tag -> [callback, sender, stage]
  servePromise,      \* the promise serve() returned: none, pending, resolved
  endPromise,        \* the promise end() returned: none, pending, resolved
  cleanClient,       \* the clean-session client of serve()'s _clearPersistedSession
  finalClient,       \* the clean-session client of end()'s _clearPersistedSession
  endListener,       \* serve()'s this.once('end', ...) listener is registered
  client,            \* this._client, the operational (clean: false) connection
  _isReconnect,      \* this._isReconnect
  _unnamedInstances, \* this._unnamedInstances: clientId -> set of instance ids
  _namedInstances,   \* this._namedInstances: clientId -> set of instance ids
  subs,              \* the topic filters this._client is subscribed to
  instances,         \* the adapter's instance table: id -> [className, named]
  nextAnon,          \* how many anonymous ids the adapter has handed out
  out                \* what the last handler did: broker calls and emitted events

vars == <<ctor, deferred, servePromise, endPromise, cleanClient, finalClient,
          endListener, client, _isReconnect, _unnamedInstances, _namedInstances,
          subs, instances, nextAnon, out>>

sessionVars == <<ctor, servePromise, endPromise, cleanClient, finalClient,
                 endListener, client, _isReconnect>>
trackerVars == <<_unnamedInstances, _namedInstances>>
adapterVars == <<instances, nextAnon, deferred>>

\* the empty Map
EmptyMap == [c \in {} |-> {}]

\* the arguments of a constructor call that has not run yet
Args(d, a, bestEffort) ==
  [domain |-> d, agent |-> a, bestEffort |-> bestEffort,
   state |-> "new", error |-> "", sink |-> FALSE]

\* the fields of an agent constructed from valid arguments
Constructed(d, a, bestEffort) ==
  [Args(d, a, bestEffort) EXCEPT !.state = "constructed", !.sink = TRUE]

\* everything but ctor, before serve() is called
Fresh ==
  /\ deferred = EmptyMap
  /\ servePromise = "none"
  /\ endPromise = "none"
  /\ cleanClient = "none"
  /\ finalClient = "none"
  /\ endListener = FALSE
  /\ client = "none"
  /\ _isReconnect = FALSE
  /\ _unnamedInstances = EmptyMap
  /\ _namedInstances = EmptyMap
  /\ subs = {}
  /\ instances = EmptyMap
  /\ nextAnon = 0
  /\ out = <<>>

\* an agent constructed with {domain, agent} and the default bestEffort = false
Init ==
  /\ ctor = Constructed(domain, agent, FALSE)
  /\ Fresh

(* ------------------------------------------------------------------ *)
(* Strings and topics                                                  *)
(* ------------------------------------------------------------------ *)

\* topic.split('/'), from position i on, start being where the token read
\* now begins
RECURSIVE split(_, _, _)
split(s, i, start) ==
  IF i > Len(s) THEN <<SubSeq(s, start, Len(s))>>
  ELSE IF SubSeq(s, i, i) = "/" THEN <<SubSeq(s, start, i - 1)>> \o split(s, i + 1, i + 1)
  ELSE split(s, i + 1, start)

\* the tokens of a topic
Tokens(topic) == split(topic, 1, 1)

\* topic.slice(0, -n)
sliceEnd(s, n) == SubSeq(s, 1, Len(s) - n)

\* s, from position i on, holds no "/"
RECURSIVE oneToken(_, _)
oneToken(s, i) ==
  i > Len(s) \/ (SubSeq(s, i, i) # "/" /\ oneToken(s, i + 1))

\* the broker's matching of a topic against a subscribed filter.  The agent's
\* filters hold a wildcard only as their last token ("+", line 625): such a
\* filter matches the topics that continue its prefix by exactly one token;
\* any other filter matches the topic equal to it.
Matches(filter, topic) ==
  LET n == Len(filter)
  IN  IF n >= 2 /\ SubSeq(filter, n - 1, n) = "/+"
      THEN /\ Len(topic) >= n
           /\ SubSeq(topic, 1, n - 1) = SubSeq(filter, 1, n - 1)
           /\ oneToken(topic, n)
      ELSE filter = topic

\* this._baseTopic
_baseTopic == ctor.domain \o "/" \o ctor.agent

\* a variant of this._qos with the two levels exchanged
qosInverted == IF ctor.bestEffort THEN 1 ELSE 0

\* this._qos
_qos == IF ctor.bestEffort THEN 0 ELSE 1

agentInfoTopic == _baseTopic \o "/__agentInfo__"
classInfoTopic(className) == _baseTopic \o "/" \o className \o "/__classInfo__"
staticTopic(className, func) == _baseTopic \o "/" \o className \o "/__static__/" \o func
instanceTopic(className, instance) == _baseTopic \o "/" \o className \o "/" \o instance \o "/+"
clientInfoTopic(clientId) == clientId \o "/__clientInfo__"

(* ------------------------------------------------------------------ *)
(* The adapter's read-only views                                       *)
(* ------------------------------------------------------------------ *)

\* the life-cycle functions every class offers as static functions
LifeCycle == <<"__create__", "__createNamed__", "__getNamed__", "__delete__">>

getAvailableClasses == ClassList
getAvailableStaticFunctions(className) == LifeCycle
getAvailableMemberFunctions(className) == <<"m", "cyclic", "callMeBackLater">>
getAvailableInstances(inst, className) ==
  {i \in DOMAIN inst : inst[i].className = className}

(* ------------------------------------------------------------------ *)
(* Broker calls.  A handler works on a record st of the fields it may  *)
(* change: un, nm (the tracker maps), subs, inst, next, defer (the     *)
(* adapter)                                                            *)
(* and out (the calls and events of this handler, in order).           *)
(* ------------------------------------------------------------------ *)

St0 ==
  [un |-> _unnamedInstances, nm |-> _namedInstances, subs |-> subs,
   inst |-> instances, next |-> nextAnon, defer |-> deferred, out |-> <<>>]

Commit(st) ==
  /\ _unnamedInstances' = st.un
  /\ _namedInstances' = st.nm
  /\ subs' = st.subs
  /\ instances' = st.inst
  /\ nextAnon' = st.next
  /\ deferred' = st.defer
  /\ out' = st.out

\* f with key k set to v (Map.set)
MapSet(f, k, v) == [x \in DOMAIN f \cup {k} |-> IF x = k THEN v ELSE f[x]]

_mqttPublish(st, topic, message, retain) ==
  [st EXCEPT
     !.out = Append(@, [op |-> "publish", topic |-> topic, message |-> message,
                        qos |-> _qos, retain |-> retain])]

_mqttSubscribe(st, topic) ==
  [st EXCEPT !.out = Append(@, [op |-> "subscribe", topic |-> topic, qos |-> _qos]),
             !.subs = @ \cup {topic}]

_mqttUnsubscribe(st, topic) ==
  [st EXCEPT !.out = Append(@, [op |-> "unsubscribe", topic |-> topic]),
             !.subs = @ \ {topic}]

\* this.emit(event)
emit(st, event) == [st EXCEPT !.out = Append(@, [op |-> "emit", event |-> event])]

_createAgentInfoPayload(status) == [kind |-> "agentInfo", status |-> status]

NullMessage == [kind |-> "null"]

_publishAgentInfoMessage(st) ==
  _mqttPublish(st, agentInfoTopic, _createAgentInfoPayload("online"), TRUE)

_publishClassInfoMessage(st, className) ==
  _mqttPublish(st, classInfoTopic(className),
               [kind |-> "classInfo", className |-> className,
                instances |-> getAvailableInstances(st.inst, className)],
               TRUE)

\* the topics of _generateTopics, in the order they are pushed
RECURSIVE staticTopicsOf(_, _)
staticTopicsOf(className, funcs) ==
  IF funcs = <<>> THEN <<>>
  ELSE <<staticTopic(className, Head(funcs))>> \o staticTopicsOf(className, Tail(funcs))

RECURSIVE _generateTopicsFrom(_)
_generateTopicsFrom(classes) ==
  IF classes = <<>> THEN <<>>
  ELSE staticTopicsOf(Head(classes), getAvailableStaticFunctions(Head(classes)))
         \o _generateTopicsFrom(Tail(classes))

_generateTopics == _generateTopicsFrom(getAvailableClasses)

\* this._mqttSubscribe(topics) with an array of topics
RECURSIVE subscribeAll(_, _)
subscribeAll(st, topics) ==
  IF topics = <<>> THEN st
  ELSE subscribeAll(_mqttSubscribe(st, Head(topics)), Tail(topics))

RECURSIVE publishClassInfos(_, _)
publishClassInfos(st, classes) ==
  IF classes = <<>> THEN st
  ELSE publishClassInfos(_publishClassInfoMessage(st, Head(classes)), Tail(classes))

(* ------------------------------------------------------------------ *)
(* The session: serve(), end() and the events of the mqtt clients      *)
(* ------------------------------------------------------------------ *)

\* !domain: the argument is missing or the empty string
missing(s) == s = Undefined \/ s = ""

\* a variant of illegal that does not know the character *
illegalButStar(s) == \E i \in 1..Len(s) : SubSeq(s, i, i) \in {"+", "/", "#"}

\* domain.match(/[+/#*]/)
illegal(s) == \E i \in 1..Len(s) : SubSeq(s, i, i) \in {"+", "/", "#", "*"}

\* the message of the error _validateDomain throws, "" when it returns
_validateDomain(d) ==
  IF missing(d) THEN "The domain must be specified"
  ELSE IF illegal(d)
  THEN "The domain must NOT contain any of those characters: \"+\", \"/\", \"#\", \"*\""
  ELSE ""

_validateAgent(a) ==
  IF missing(a) THEN "The agent must be specified"
  ELSE IF illegal(a)
  THEN "The agent must NOT contain any of those characters: \"+\", \"/\", \"#\", \"*\""
  ELSE ""

\* new VrpcAgent({ domain, agent, bestEffort }): the validations, then the
\* fields and VrpcAdapter.onCallback
constructor ==
  /\ ctor.state = "new"
  /\ ctor' = IF _validateDomain(ctor.domain) # ""
             THEN [ctor EXCEPT !.state = "failed", !.error = _validateDomain(ctor.domain)]
             ELSE IF _validateAgent(ctor.agent) # ""
             THEN [ctor EXCEPT !.state = "failed", !.error = _validateAgent(ctor.agent)]
             ELSE [ctor EXCEPT !.state = "constructed", !.sink = TRUE]
  /\ UNCHANGED <<deferred, servePromise, endPromise, cleanClient, finalClient,
                 endListener, client, _isReconnect, _unnamedInstances,
                 _namedInstances, subs, instances, nextAnon, out>>

\* mqtt.connect(this._broker, { ...this._options, clean }) with the last will
\* of this._options
mqttConnect(st, clean) ==
  [st EXCEPT
     !.out = Append(@, [op |-> "connect", clean |-> clean,
                        will |-> [topic |-> agentInfoTopic,
                                  payload |-> _createAgentInfoPayload("offline"),
                                  qos |-> _qos, retain |-> TRUE]])]

\* serve(), up to its first await: _clearPersistedSession() opens the
\* clean-session client and registers this.once('end', ...)
serve ==
  /\ ctor.state = "constructed"
  /\ servePromise = "none"
  /\ servePromise' = "pending"
  /\ cleanClient' = "connecting"
  /\ endListener' = TRUE
  /\ Commit(mqttConnect(St0, TRUE))
  /\ UNCHANGED <<ctor, endPromise, finalClient, client, _isReconnect>>

\* a variant of cleanConnected in which serve() opens the operational client
\* as soon as the clean client has connected, without waiting for its end
cleanConnectedOpensClient ==
  /\ cleanClient = "connecting"
  /\ cleanClient' = "ending"
  /\ client' = "connecting"
  /\ Commit(mqttConnect(St0, FALSE))
  /\ UNCHANGED <<ctor, servePromise, endPromise, finalClient, endListener, _isReconnect>>

\* _clearPersistedSession: client.on('connect', ...) of serve()'s clean client
cleanConnected ==
  /\ cleanClient = "connecting"
  /\ cleanClient' = "ending"
  /\ Commit(St0)
  /\ UNCHANGED <<ctor, servePromise, endPromise, finalClient, endListener, client, _isReconnect>>

\* the callback of the clean client's end(): resolve(false); serve() goes on
\* after its await: wasEnded is false, so it opens the operational client and
\* returns _ensureConnected(), which waits for that client's 'connect'
cleanEnded ==
  /\ cleanClient = "ending"
  /\ cleanClient' = "ended"
  /\ client' = "connecting"
  /\ Commit(mqttConnect(St0, FALSE))
  /\ UNCHANGED <<ctor, servePromise, endPromise, finalClient, endListener, _isReconnect>>

\* _clearPersistedSession: the clean clients' 'error', 'offline' and
\* 'reconnect' events are passed on
cleanEvent(event) ==
  /\ cleanClient = "connecting" \/ finalClient = "connecting"
  /\ Commit(emit(St0, event))
  /\ UNCHANGED sessionVars

\* _clearPersistedSession as end() calls it: the final clean client connects
finalConnected ==
  /\ finalClient = "connecting"
  /\ finalClient' = "ending"
  /\ Commit(St0)
  /\ UNCHANGED <<ctor, servePromise, endPromise, cleanClient, endListener, client, _isReconnect>>

\* the callback of the final clean client's end(): end() returns
finalEnded ==
  /\ finalClient = "ending"
  /\ finalClient' = "ended"
  /\ endPromise' = "resolved"
  /\ Commit(St0)
  /\ UNCHANGED <<ctor, servePromise, cleanClient, endListener, client, _isReconnect>>

\* a variant of _handleConnectCalls that does not look at _isReconnect
handleConnectAlwaysInitial(st) ==
  emit(publishClassInfos(
         _publishAgentInfoMessage(subscribeAll(st, _generateTopics)),
         getAvailableClasses),
       "connect")

\* what _handleConnect does to st
_handleConnectCalls(st) ==
  IF _isReconnect
  THEN emit(_publishAgentInfoMessage(st), "connect")
  ELSE emit(publishClassInfos(
              _publishAgentInfoMessage(subscribeAll(st, _generateTopics)),
              getAvailableClasses),
            "connect")

\* the operational client's 'connect' event: _handleConnect, and the resolve
\* that _ensureConnected registered with once('connect')
_handleConnect ==
  /\ client \in {"connecting", "reconnecting"}
  /\ client' = "connected"
  /\ Commit(_handleConnectCalls(St0))
  /\ _isReconnect' = FALSE
  /\ servePromise' = "resolved"
  /\ UNCHANGED <<ctor, endPromise, cleanClient, finalClient, endListener>>

\* the operational client's 'close' event: a connection attempt failed or the
\* connection was lost
_handleClose ==
  /\ client \in {"connecting", "reconnecting", "connected"}
  /\ client' = "closed"
  /\ Commit(emit(St0, "close"))
  /\ UNCHANGED <<ctor, servePromise, endPromise, cleanClient, finalClient, endListener, _isReconnect>>

_handleOffline ==
  /\ client = "closed"
  /\ Commit(emit(St0, "offline"))
  /\ UNCHANGED sessionVars

\* the operational client starts a reconnect
_handleReconnect ==
  /\ client = "closed"
  /\ client' = "reconnecting"
  /\ _isReconnect' = TRUE
  /\ Commit(emit(St0, "reconnect"))
  /\ UNCHANGED <<ctor, servePromise, endPromise, cleanClient, finalClient, endListener>>

_handleError ==
  /\ client \in {"connecting", "reconnecting"}
  /\ Commit(emit(St0, "error"))
  /\ UNCHANGED sessionVars

\* end()'s publications when unregister is set: the null messages
RECURSIVE clearClassInfos(_, _)
clearClassInfos(st, classes) ==
  IF classes = <<>> THEN st
  ELSE clearClassInfos(
         _mqttPublish(st, classInfoTopic(Head(classes)), NullMessage, TRUE),
         Tail(classes))

\* a variant of endCalls that clears the retained slots before it publishes
\* the offline message
endCallsClearFirst(st, unregister) ==
  LET cleared == IF unregister
                 THEN clearClassInfos(_mqttPublish(st, agentInfoTopic, NullMessage, TRUE),
                                      getAvailableClasses)
                 ELSE st
      off == _mqttPublish(cleared, agentInfoTopic, _createAgentInfoPayload("offline"), TRUE)
  IN  [off EXCEPT !.out = Append(@, [op |-> "client.end"])]

\* end() on a connected agent: the publications, then this._client.end(...)
endCalls(st, unregister) ==
  LET off == _mqttPublish(st, agentInfoTopic, _createAgentInfoPayload("offline"), TRUE)
      cleared == IF unregister
                 THEN clearClassInfos(_mqttPublish(off, agentInfoTopic, NullMessage, TRUE),
                                      getAvailableClasses)
                 ELSE off
  IN  [cleared EXCEPT !.out = Append(@, [op |-> "client.end"])]

\* the call of end({ unregister }) itself, noted in st.out
endCalled(st, unregister) ==
  [st EXCEPT !.out = Append(@, [op |-> "end", unregister |-> unregister])]

\* end({ unregister }), up to its first await
end(unregister) ==
  /\ servePromise # "none"
  /\ endPromise = "none"
  /\ IF client # "connected"
     THEN \* this.emit('end'); return.  serve()'s once('end') listener, if it
          \* is still registered, ends the clean client and resolves
          \* _clearPersistedSession with true, on which serve() returns
          /\ Commit(emit(endCalled(St0, unregister), "end"))
          /\ endPromise' = "resolved"
          /\ endListener' = FALSE
          /\ cleanClient' = IF endListener /\ cleanClient \in {"connecting", "ending"}
                            THEN "ended" ELSE cleanClient
          /\ servePromise' = IF endListener /\ cleanClient \in {"connecting", "ending"}
                             THEN "resolved" ELSE servePromise
          /\ UNCHANGED <<ctor, finalClient, client, _isReconnect>>
     ELSE /\ Commit(endCalls(endCalled(St0, unregister), unregister))
          /\ endPromise' = "pending"
          /\ client' = "ending"
          /\ UNCHANGED <<ctor, servePromise, cleanClient, finalClient, endListener, _isReconnect>>

\* the operational client has ended: the callback of this._client.end()
\* resolves, the client's 'end' event reaches _handleEnd, and end() goes on
\* with _clearPersistedSession()
_handleEnd ==
  /\ client = "ending"
  /\ client' = "ended"
  /\ Commit(mqttConnect(emit(St0, "end"), TRUE))
  /\ endListener' = FALSE
  /\ finalClient' = "connecting"
  /\ UNCHANGED <<ctor, servePromise, endPromise, cleanClient, _isReconnect>>

SessionNext ==
  \/ serve
  \/ cleanConnected
  \/ cleanEnded
  \/ \E event \in {"error", "offline", "reconnect"} : cleanEvent(event)
  \/ finalConnected
  \/ finalEnded
  \/ _handleConnect
  \/ _handleClose
  \/ _handleOffline
  \/ _handleReconnect
  \/ _handleError
  \/ \E unregister \in BOOLEAN : end(unregister)
  \/ _handleEnd

(* ------------------------------------------------------------------ *)
(* VrpcAdapter._call: the dispatch of section 4.1 of the specification *)
(* ------------------------------------------------------------------ *)

\* the n-th generated id of an anonymous instance
AnonId(n) == "u" \o <<"1", "2", "3", "4", "5", "6", "7", "8", "9">>[n]

\* json with data.r set, data.e set
returnValue(json, r) == [json EXCEPT !.data.r = r]
returnError(json, e) == [json EXCEPT !.data.e = e]

\* f without key k (Map.delete)
MapDelete(f, k) == [x \in DOMAIN f \ {k} |-> f[x]]

\* the n-th promise tag
PromiseTag(n) == "__p__" \o <<"1", "2", "3", "4", "5", "6", "7", "8", "9">>[n]

\* a return value JSON.stringify throws on
NotSerializable == "<not serializable>"

\* what _call gives back: the state, the mutated json and whether it threw
Returned(st, json) == [st |-> st, json |-> json, thrown |-> FALSE]
Thrown(st, json, message) ==
  [st |-> [st EXCEPT !.out = Append(@, [op |-> "throw", message |-> message])],
   json |-> json, thrown |-> TRUE]

\* a call of a member function: the context is looked up in the instance
\* table and the method in the instance; a missing context and a missing
\* function are thrown as errors ("Could not find context: ...", "Could not
\* find function: ...").  m returns a value, cyclic a value that cannot be
\* serialized, callMeBackLater a deferred result: data.r is a fresh promise
\* tag, and the callback of data._1 and the resolution are emitted later.
_handleCall(st, json) ==
  LET ctx == json.context
      tag == PromiseTag(Cardinality(DOMAIN st.defer) + 1)
  IN  IF ctx \notin DOMAIN st.inst
      THEN Thrown(st, json, "Could not find context: " \o ctx)
      ELSE IF \A i \in 1..Len(getAvailableMemberFunctions(st.inst[ctx].className)) :
                getAvailableMemberFunctions(st.inst[ctx].className)[i] # json.method
      THEN Thrown(st, json, "Could not find function: " \o json.method)
      ELSE IF json.method = "cyclic"
      THEN Returned(st, returnValue(json, NotSerializable))
      ELSE IF json.method = "callMeBackLater"
      THEN Returned([st EXCEPT !.defer = MapSet(@, tag, [callback |-> json.data.a1,
                                                         sender |-> json.sender,
                                                         stage |-> 0])],
                    returnValue(json, tag))
      ELSE Returned(st, returnValue(json, "value"))

\* VrpcAdapter._call(json): mutates json (data.r or data.e) and the instance
\* table.  ok tells whether the constructor, given these arguments, returns
\* (TRUE) or throws (FALSE).  The call itself is noted in st.out.
_call(st, json, ok) ==
  LET ctx == json.context
      a1 == json.data.a1
      noted == [st EXCEPT !.out = Append(@, [op |-> "call", context |-> ctx,
                                             method |-> json.method, a1 |-> a1])]
  IN  CASE json.method = "__create__" ->
             IF ctx \notin Classes
             THEN Returned(noted, returnError(json, "Could not find context: " \o ctx))
             ELSE IF ~ok
             THEN Returned(noted, returnError(json, "constructor failed"))
             ELSE Returned([noted EXCEPT
                              !.next = @ + 1,
                              !.inst = MapSet(@, AnonId(st.next + 1),
                                              [className |-> ctx, named |-> FALSE])],
                           returnValue(json, AnonId(st.next + 1)))
        [] json.method = "__createNamed__" ->
             IF ctx \notin Classes
             THEN Returned(noted, returnError(json, "Could not find context: " \o ctx))
             ELSE IF a1 \in DOMAIN st.inst
             THEN Returned(noted, returnValue(json, a1))
             ELSE IF ~ok
             THEN Returned(noted, returnError(json, "constructor failed"))
             ELSE Returned([noted EXCEPT
                              !.inst = MapSet(@, a1, [className |-> ctx, named |-> TRUE])],
                           returnValue(json, a1))
        [] json.method = "__getNamed__" ->
             IF a1 \in DOMAIN st.inst
             THEN Returned(noted, returnValue(json, a1))
             ELSE Returned(noted, returnError(json, "Could not find instance: " \o a1))
        [] json.method = "__delete__" ->
             IF a1 \in DOMAIN st.inst
             THEN Returned([noted EXCEPT !.inst = MapDelete(@, a1)],
                           returnValue(json, "true"))
             ELSE Returned(noted, returnValue(json, "false"))
        [] OTHER -> _handleCall(noted, json)

(* ------------------------------------------------------------------ *)
(* The client/instance tracker                                         *)
(* ------------------------------------------------------------------ *)

_subscribeToMethodsOfNewInstance(st, className, instance) ==
  _mqttSubscribe(st, instanceTopic(className, instance))

_unsubscribeMethodsOfDeletedInstance(st, className, instance) ==
  _mqttUnsubscribe(st, instanceTopic(className, instance))

\* a variant of _registerUnnamedInstance that files the instance under the first
\* token of the sender instead of the sender
registerUnnamedByPrefix(st, instanceId, clientId) ==
  LET key == Tokens(clientId)[1]
  IN  IF key \in DOMAIN st.un
      THEN [st EXCEPT !.un[key] = @ \cup {instanceId}]
      ELSE LET set == [st EXCEPT !.un = MapSet(@, key, {instanceId})]
           IN  IF key \notin DOMAIN set.nm
               THEN _mqttSubscribe(set, clientInfoTopic(key))
               ELSE set

\* a variant of _registerUnnamedInstance that does not look into the named map
\* before it subscribes to the client info of a client new to the anonymous map
registerUnnamedUnaware(st, instanceId, clientId) ==
  IF clientId \in DOMAIN st.un
  THEN [st EXCEPT !.un[clientId] = @ \cup {instanceId}]
  ELSE _mqttSubscribe([st EXCEPT !.un = MapSet(@, clientId, {instanceId})],
                      clientInfoTopic(clientId))

_registerUnnamedInstance(st, instanceId, clientId) ==
  IF clientId \in DOMAIN st.un
  THEN [st EXCEPT !.un[clientId] = @ \cup {instanceId}]
  ELSE LET set == [st EXCEPT !.un = MapSet(@, clientId, {instanceId})]
       IN  IF clientId \notin DOMAIN set.nm
           THEN _mqttSubscribe(set, clientInfoTopic(clientId))
           ELSE set

\* a variant of _registerNamedInstance that does not look into the anonymous
\* map before it subscribes to the client info of a client new to the named map
registerNamedUnaware(st, instanceId, clientId) ==
  IF clientId \in DOMAIN st.nm
  THEN [st EXCEPT !.nm[clientId] = @ \cup {instanceId}]
  ELSE _mqttSubscribe([st EXCEPT !.nm = MapSet(@, clientId, {instanceId})],
                      clientInfoTopic(clientId))

_registerNamedInstance(st, instanceId, clientId) ==
  IF clientId \in DOMAIN st.nm
  THEN [st EXCEPT !.nm[clientId] = @ \cup {instanceId}]
  ELSE LET set == [st EXCEPT !.nm = MapSet(@, clientId, {instanceId})]
       IN  IF clientId \notin DOMAIN set.un
           THEN _mqttSubscribe(set, clientInfoTopic(clientId))
           ELSE set

_hasNamedInstance(st, instanceId) ==
  \E c \in DOMAIN st.nm : instanceId \in st.nm[c]

\* entry.length === 0 for a Set entry: a Set has a size and no length, so
\* entry.length is undefined and the comparison is false
lengthIsZero(entry) == FALSE

\* the body of "if (v.length === 0)" in the forEach over _namedInstances, once
\* for every entry in keys that held instanceId and is now empty
RECURSIVE forgetNamed(_, _, _)
forgetNamed(st, keys, clientId) ==
  IF keys = {} THEN st
  ELSE LET k == CHOOSE x \in keys : TRUE
       IN  forgetNamed(
             _mqttUnsubscribe([st EXCEPT !.nm = MapDelete(@, clientId)],
                              clientInfoTopic(clientId)),
             keys \ {k}, clientId)

\* _unregisterInstance(instanceId, clientId): the new st and the value returned
_unregisterInstance(st, instanceId, clientId) ==
  IF clientId \in DOMAIN st.un /\ instanceId \in st.un[clientId]
  THEN LET deleted == [st EXCEPT !.un[clientId] = @ \ {instanceId}]
       IN  [st |-> IF lengthIsZero(deleted.un[clientId])
                   THEN _mqttUnsubscribe([deleted EXCEPT !.un = MapDelete(@, clientId)],
                                         clientInfoTopic(clientId))
                   ELSE deleted,
            wasNamed |-> FALSE]
  ELSE LET holders == {c \in DOMAIN st.nm : instanceId \in st.nm[c]}
           deleted == [st EXCEPT !.nm = [c \in DOMAIN st.nm |-> st.nm[c] \ {instanceId}]]
           emptied == {c \in holders : lengthIsZero(deleted.nm[c])}
       IN  [st |-> forgetNamed(deleted, emptied, clientId),
            wasNamed |-> holders # {}]

(* ------------------------------------------------------------------ *)
(* Incoming messages                                                   *)
(* ------------------------------------------------------------------ *)

\* JSON.stringify(json) of the mutated envelope; it throws when data.r cannot
\* be serialized
serializable(json) == json.data.r # NotSerializable
stringify(json) == [kind |-> "envelope", json |-> json]

\* _handleClientInfoMessage: the __delete__ calls of entry.forEach
RECURSIVE deleteAll(_, _)
deleteAll(st, entry) ==
  IF entry = {} THEN st
  ELSE LET instanceId == CHOOSE x \in entry : TRUE
           called == _call(st,
                           [context |-> Undefined, method |-> "__delete__",
                            data |-> [a1 |-> instanceId, r |-> Undefined, e |-> Undefined]],
                           TRUE)
       IN  deleteAll(called.st, entry \ {instanceId})

\* a variant of _handleClientInfoMessage that does not look at json.status
handleClientInfoAnyStatus(st, topic, json) ==
  LET clientId == sliceEnd(topic, 9)
      gone == IF clientId \in DOMAIN st.un
              THEN deleteAll(st, st.un[clientId])
              ELSE st
      dropped == [gone EXCEPT !.out = Append(@, [op |-> "unregisterEventListeners",
                                                 clientId |-> clientId])]
  IN  _mqttUnsubscribe(dropped, clientInfoTopic(clientId))

_handleClientInfoMessage(st, topic, json) ==
  LET clientId == sliceEnd(topic, 9)
  IN  IF json.status = "offline"
      THEN LET gone == IF clientId \in DOMAIN st.un
                       THEN deleteAll(st, st.un[clientId])
                       ELSE st
               dropped == [gone EXCEPT !.out = Append(@, [op |-> "unregisterEventListeners",
                                                          clientId |-> clientId])]
           IN  _mqttUnsubscribe(dropped, clientInfoTopic(clientId))
      ELSE st

\* the life-cycle switch of _handleMessage, after VrpcAdapter._call: the new
\* st and the flag publishClassInfo
lifeCycle(st, json, className, instance, method) ==
  CASE method = "__create__" ->
         LET instanceId == json.data.r
         IN  [st |-> _registerUnnamedInstance(
                       _subscribeToMethodsOfNewInstance(st, className, instanceId),
                       instanceId, json.sender),
              publishClassInfo |-> FALSE]
    [] method = "__createNamed__" ->
         LET instanceId == json.data.r
             isNew == ~_hasNamedInstance(st, instanceId)
             subscribed == IF isNew
                           THEN _subscribeToMethodsOfNewInstance(st, className, instanceId)
                           ELSE st
         IN  [st |-> _registerNamedInstance(subscribed, instanceId, json.sender),
              publishClassInfo |-> isNew]
    [] method = "__getNamed__" ->
         [st |-> IF json.data.e = Undefined
                 THEN _registerNamedInstance(st, json.data.a1, json.sender)
                 ELSE st,
          publishClassInfo |-> FALSE]
    [] method = "__delete__" ->
         LET u == _unregisterInstance(
                    _unsubscribeMethodsOfDeletedInstance(st, className, instance),
                    json.data.a1, json.sender)
         IN  [st |-> u.st, publishClassInfo |-> u.wasNamed]
    [] OTHER -> [st |-> st, publishClassInfo |-> FALSE]

\* variants of reply: one without the fallback for a return value that cannot
\* be serialized (the error then reaches the catch of line 538), one that
\* publishes the class info before the reply whatever the method
replyUnlessThrown(st, json, className, method, publishClassInfo) ==
  LET before == IF publishClassInfo /\ method = "__delete__"
                THEN _publishClassInfoMessage(st, className)
                ELSE st
      replied == _mqttPublish(before, json.sender, stringify(json), FALSE)
  IN  IF ~serializable(json) THEN st
      ELSE IF publishClassInfo /\ method = "__createNamed__"
      THEN _publishClassInfoMessage(replied, className)
      ELSE replied

replyClassInfoFirst(st, json, className, method, publishClassInfo) ==
  _mqttPublish(IF publishClassInfo THEN _publishClassInfoMessage(st, className) ELSE st,
               json.sender, stringify(json), FALSE)

\* the end of _handleMessage: serialization, then the reply and the class
\* info in the order the method asks for
reply(st, json, className, method, publishClassInfo) ==
  LET jsonString == IF serializable(json)
                    THEN stringify(json)
                    ELSE stringify([json EXCEPT !.data.r = "__vrpc::not-serializable__"])
      before == IF publishClassInfo /\ method = "__delete__"
                THEN _publishClassInfoMessage(st, className)
                ELSE st
      replied == _mqttPublish(before, json.sender, jsonString, FALSE)
  IN  IF publishClassInfo /\ method = "__createNamed__"
      THEN _publishClassInfoMessage(replied, className)
      ELSE replied

\* _handleMessage(topic, data) for a payload that parses to json; the message
\* itself is noted first in st.out
handleMessageCalls(st, topic, json, ok) ==
  LET tokens == Tokens(topic)
      received == [st EXCEPT !.out = Append(@, [op |-> "message", topic |-> topic,
                                                json |-> json])]
  IN  IF Len(tokens) = 4 /\ tokens[4] = "__clientInfo__"
      THEN _handleClientInfoMessage(received, topic, json)
      ELSE IF Len(tokens) # 5
      THEN received
      ELSE LET className == tokens[3]
               instance == tokens[4]
               method == tokens[5]
               rpc == [context |-> IF instance = "__static__" THEN className ELSE instance,
                       method |-> method, data |-> json.data, sender |-> json.sender,
                       id |-> json.id]
               called == _call(received, rpc, ok)
               cycled == lifeCycle(called.st, called.json, className, instance, method)
           IN  IF called.thrown
               THEN \* the catch of line 538: the error is logged
                    called.st
               ELSE reply(cycled.st, called.json, className, method,
                          cycled.publishClassInfo)

\* the ids the adapter has generated so far
AnonIds == {AnonId(n) : n \in 1..nextAnon}

\* the methods a caller sends on an instance's topic
InstanceMethods == {"m", "not_there"}

\* the RPC messages of the model: the topic, the envelope's data._1 (a1) and
\* whether the constructor succeeds.  Life-cycle calls arrive on the static
\* topics the agent subscribed to, member calls on the topic of the instance.
\* A __delete__ may arrive on the static topic of any class, whatever the class
\* of the instance it names.
RpcInputs ==
  {[topic |-> staticTopic(c, "__create__"), a1 |-> Undefined, ok |-> b] :
     c \in MsgClasses, b \in BOOLEAN}
  \cup {[topic |-> staticTopic(c, "__createNamed__"), a1 |-> n, ok |-> b] :
          c \in MsgClasses, n \in Names, b \in BOOLEAN}
  \cup {[topic |-> staticTopic(c, "__getNamed__"), a1 |-> n, ok |-> TRUE] :
          c \in MsgClasses, n \in Names}
  \cup {[topic |-> staticTopic(c, "__delete__"), a1 |-> x, ok |-> TRUE] :
          c \in Classes, x \in Names \cup AnonIds}
  \cup {[topic |-> _baseTopic \o "/" \o c \o "/" \o i \o "/" \o m,
         a1 |-> Undefined, ok |-> TRUE] :
          c \in MsgClasses, i \in Names \cup AnonIds, m \in InstanceMethods}

delivered(topic) == \E filter \in subs : Matches(filter, topic)

\* the 'message' event of the operational client with an RPC envelope, the
\* message being one of inputs sent by one of senders
_handleMessage(inputs, senders) ==
  /\ client = "connected"
  /\ \E in \in {i \in inputs : delivered(i.topic)}, sender \in senders :
       /\ (in.ok /\ Tokens(in.topic)[5] = "__create__") => nextAnon < MaxAnon
       /\ Tokens(in.topic)[5] = "callMeBackLater" =>
            Cardinality(DOMAIN deferred) < MaxDeferred
       /\ Commit(handleMessageCalls(
                   St0, in.topic,
                   [data |-> [a1 |-> in.a1, r |-> Undefined, e |-> Undefined],
                    sender |-> sender, id |-> "1"],
                   in.ok))
  /\ UNCHANGED sessionVars

\* the clients whose presence messages the model delivers: those with a client
\* id of three tokens
PresenceClients == {c \in Senders : Len(Tokens(c)) = 3}

\* the 'message' event of the operational client with a client-info payload
clientInfoMessage ==
  /\ client = "connected"
  /\ \E c \in {p \in PresenceClients : delivered(clientInfoTopic(p))},
        status \in {"online", "offline"} :
       Commit(handleMessageCalls(St0, clientInfoTopic(c), [status |-> status], TRUE))
  /\ UNCHANGED sessionVars

\* the envelope the adapter hands to the sink for a deferred result: at stage
\* 0 the invocation of the callback, under the id of the callback argument; at
\* stage 1 the resolution, under the promise tag
callbackEnvelope(tag, d) ==
  [id |-> IF d.stage = 0 THEN d.callback ELSE tag,
   data |-> IF d.stage = 0
            THEN [a1 |-> "100", r |-> Undefined, e |-> Undefined]
            ELSE [a1 |-> Undefined, r |-> "100", e |-> Undefined],
   sender |-> d.sender]

\* a variant of _handleVrpcCallback that publishes to the agent's own topic
handleVrpcCallbackToAgent(st, jsonString, jsonObject) ==
  _mqttPublish(st, _baseTopic, jsonString, FALSE)

_handleVrpcCallback(st, jsonString, jsonObject) ==
  _mqttPublish(st, jsonObject.sender, jsonString, FALSE)

\* the adapter emits the next envelope of one of its deferred results through
\* the sink the constructor installed.  The model lets deferred results
\* complete while the agent is connected.
vrpcCallback ==
  /\ ctor.sink
  /\ client = "connected"
  /\ \E tag \in DOMAIN deferred :
       /\ deferred[tag].stage < 2
       /\ LET env == callbackEnvelope(tag, deferred[tag])
              emitted == [St0 EXCEPT !.defer[tag].stage = @ + 1,
                                     !.out = <<[op |-> "callback", id |-> env.id,
                                                sender |-> env.sender]>>]
          IN  Commit(_handleVrpcCallback(emitted, stringify(env), env))
  /\ UNCHANGED sessionVars

(* ------------------------------------------------------------------ *)
(* Specifications                                                      *)
(* ------------------------------------------------------------------ *)

\* the messages of the session specification: one class, one sender, creation
\* only
SessionInputs ==
  {in \in RpcInputs : in.ok /\ in.topic \in {staticTopic(ClassList[1], "__create__"),
                                            staticTopic(ClassList[1], "__createNamed__")}}
SessionSenders == {"c/h/1"}

\* Spec: the whole session life cycle, with few messages
Next ==
  \/ SessionNext
  \/ _handleMessage(SessionInputs, SessionSenders)

Spec == Init /\ [][Next]_vars

\* MsgSpec: serve() up to the first connect, then every message of the model
MsgNext ==
  \/ serve
  \/ cleanConnected
  \/ cleanEnded
  \/ _handleConnect
  \/ _handleMessage(RpcInputs, Senders)
  \/ clientInfoMessage

MsgSpec == Init /\ [][MsgNext]_vars

\* CallSpec: serve() up to the first connect, then the creation and deletion of
\* instances of one class by one caller, calls of their member functions and
\* the completion of deferred results, which the scheduler does not postpone
\* for ever
CallMethods == {"m", "not_there", "cyclic", "callMeBackLater"}

CallInputs ==
  {[topic |-> staticTopic(c, "__create__"), a1 |-> Undefined, ok |-> TRUE] :
     c \in MsgClasses}
  \cup {[topic |-> staticTopic(c, f), a1 |-> n, ok |-> TRUE] :
          c \in MsgClasses, f \in {"__createNamed__", "__delete__"}, n \in Names}
  \cup {[topic |-> _baseTopic \o "/" \o c \o "/" \o i \o "/" \o m,
         a1 |-> IF m = "callMeBackLater" THEN "__f__cb-1" ELSE Undefined,
         ok |-> TRUE] :
          c \in MsgClasses, i \in Names \cup AnonIds, m \in CallMethods}

CallSenders == {"s4"}

CallNext ==
  \/ serve
  \/ cleanConnected
  \/ cleanEnded
  \/ _handleConnect
  \/ _handleMessage(CallInputs, CallSenders)
  \/ vrpcCallback

CallSpec == Init /\ [][CallNext]_vars /\ WF_vars(vrpcCallback)

\* OwnerSpec: serve() up to the first connect, then the creation and deletion
\* of anonymous instances, __getNamed__ and __createNamed__ with any
\* identifier a caller may send, that of an anonymous instance included, and
\* the presence messages of the callers
OwnerInputs ==
  {[topic |-> staticTopic(c, "__create__"), a1 |-> Undefined, ok |-> TRUE] :
     c \in MsgClasses}
  \cup {[topic |-> staticTopic(c, f), a1 |-> x, ok |-> TRUE] :
          c \in MsgClasses, f \in {"__getNamed__", "__createNamed__", "__delete__"},
          x \in AnonIds}
  \cup {[topic |-> staticTopic(c, "__getNamed__"), a1 |-> n, ok |-> TRUE] :
          c \in MsgClasses, n \in Names}

OwnerNext ==
  \/ serve
  \/ cleanConnected
  \/ cleanEnded
  \/ _handleConnect
  \/ _handleMessage(OwnerInputs, Senders)
  \/ clientInfoMessage

OwnerSpec == Init /\ [][OwnerNext]_vars

\* RouteSpec: serve() up to the first connect, then life-cycle calls by two
\* callers, one with a client id of three tokens and one with a client id of
\* two, and the presence messages of both: the client-info topic of the first
\* has four tokens, that of the second three
RouteSenders == {"c/h/1", "c/h"}

RouteInputs ==
  {[topic |-> staticTopic(c, "__create__"), a1 |-> Undefined, ok |-> TRUE] :
     c \in MsgClasses}
  \cup {[topic |-> staticTopic(c, f), a1 |-> n, ok |-> TRUE] :
          c \in MsgClasses, f \in {"__createNamed__", "__getNamed__"}, n \in Names}
  \cup {[topic |-> staticTopic(c, "__delete__"), a1 |-> x, ok |-> TRUE] :
          c \in MsgClasses, x \in Names \cup AnonIds}

\* the 'message' event of the operational client with a client-info payload
\* on the client-info topic of one of the callers of RouteSpec
routedClientInfoMessage ==
  /\ client = "connected"
  /\ \E c \in {p \in RouteSenders : delivered(clientInfoTopic(p))},
        status \in {"online", "offline"} :
       Commit(handleMessageCalls(St0, clientInfoTopic(c), [status |-> status], TRUE))
  /\ UNCHANGED sessionVars

RouteNext ==
  \/ serve
  \/ cleanConnected
  \/ cleanEnded
  \/ _handleConnect
  \/ _handleMessage(RouteInputs, RouteSenders)
  \/ routedClientInfoMessage

RouteSpec == Init /\ [][RouteNext]_vars

\* QosSpec: the session of Spec, for an agent constructed with bestEffort
\* false and for one constructed with bestEffort true
QosInit ==
  /\ \E bestEffort \in BOOLEAN : ctor = Constructed(domain, agent, bestEffort)
  /\ Fresh

QosSpec == QosInit /\ [][Next]_vars

\* CtorSpec: the constructor on every pair of NameInputs, and serve() on what
\* it constructed
CtorInit ==
  /\ ctor \in {Args(d, a, b) : d \in NameInputs, a \in NameInputs, b \in BOOLEAN}
  /\ Fresh

CtorNext ==
  \/ constructor
  \/ serve

CtorSpec == CtorInit /\ [][CtorNext]_vars

\* LiveSpec: Spec with the steps the agent takes by itself: the callbacks of
\* the end() calls it has issued.  The broker's events and the calls of serve()
\* and end() carry no fairness: the broker may stay out of reach.
LiveSpec ==
  /\ Spec
  /\ WF_vars(cleanEnded)
  /\ WF_vars(_handleEnd)
  /\ WF_vars(finalEnded)

(* ------------------------------------------------------------------ *)
(* Reading the log of a handler                                        *)
(* ------------------------------------------------------------------ *)

\* o is the log of a handled 'message' event
Handled(o) == o # <<>> /\ o[1].op = "message"

\* ... of a message on a topic of five tokens
HandledRpc(o) == Handled(o) /\ Len(Tokens(o[1].topic)) = 5

MethodOf(o) == Tokens(o[1].topic)[5]

\* ... of a client-info message of client c with status offline
HandledOffline(o, c) ==
  /\ Handled(o)
  /\ o[1].topic = clientInfoTopic(c)
  /\ o[1].json.status = "offline"

IsReply(e) == e.op = "publish" /\ e.message.kind = "envelope"

IsClassInfoOf(e, className) ==
  /\ e.op = "publish"
  /\ e.message.kind = "classInfo"
  /\ e.topic = classInfoTopic(className)
  /\ e.retain

IsOnlineAgentInfo(e) ==
  /\ e.op = "publish"
  /\ e.topic = agentInfoTopic
  /\ e.message = _createAgentInfoPayload("online")
  /\ e.retain

Max(S) == CHOOSE x \in S : \A y \in S : y <= x

\* the named instances of a class in an instance table
NamedOf(inst, className) ==
  {i \in DOMAIN inst : inst[i].className = className /\ inst[i].named}

(* ------------------------------------------------------------------ *)
(* Claims                                                              *)
(* ------------------------------------------------------------------ *)

\* C1: a message on a five-token topic with a well-formed envelope makes the
\* agent publish exactly one message to the envelope's sender topic, the
\* reply, and that reply carries data.r or data.e.
C1_ExactlyOneReply ==
  HandledRpc(out) =>
    LET toSender == {i \in 1..Len(out) :
                       out[i].op = "publish" /\ out[i].topic = out[1].json.sender}
    IN  /\ Cardinality(toSender) = 1
        /\ \A i \in toSender :
             /\ IsReply(out[i])
             /\ \/ out[i].message.json.data.r # Undefined
                \/ out[i].message.json.data.e # Undefined

\* C2: when a __createNamed__ creates a named instance that did not exist,
\* the class info of its class is published after the reply, none before
\* it, and it lists the new name.
C2_Step ==
  \A n \in Names :
    ( /\ HandledRpc(out')
      /\ MethodOf(out') = "__createNamed__"
      /\ out'[1].json.data.a1 = n
      /\ n \notin DOMAIN instances
      /\ n \in DOMAIN instances' )
    => LET c == instances'[n].className
       IN  \E i \in 1..Len(out') :
             /\ IsReply(out'[i])
             /\ \A k \in 1..(i - 1) : ~IsClassInfoOf(out'[k], c)
             /\ \E j \in (i + 1)..Len(out') :
                  IsClassInfoOf(out'[j], c) /\ n \in out'[j].message.instances

C3_Step ==
  \A x \in DOMAIN instances :
    ( /\ HandledRpc(out')
      /\ MethodOf(out') = "__delete__"
      /\ out'[1].json.data.a1 = x
      /\ instances[x].named
      /\ x \notin DOMAIN instances' )
    => LET c == instances[x].className
       IN  \E i \in 1..Len(out') :
             /\ IsReply(out'[i])
             /\ LET J == {j \in 1..(i - 1) : IsClassInfoOf(out'[j], c)}
                IN  J # {} /\ x \notin out'[Max(J)].message.instances

C3_ClassInfoBeforeReply == [][C3_Step]_vars

\* C4: when an offline client-info message of client c has been handled, a
\* __delete__ was dispatched to the adapter for every anonymous instance the
\* tracker holds for c, and none of them is live any more.
C4_OfflineDeletesAnonymous ==
  \A c \in Senders :
    (HandledOffline(out, c) /\ c \in DOMAIN _unnamedInstances) =>
      \A x \in _unnamedInstances[c] \ {Undefined} :
        /\ x \notin DOMAIN instances
        /\ \E i \in 1..Len(out) :
             out[i].op = "call" /\ out[i].method = "__delete__" /\ out[i].a1 = x

\* C5: when an offline client-info message of client c has been handled, the
\* agent is subscribed to the dispatch topic of none of the anonymous
\* instances c had created.
C5_OfflineUnsubscribesInstance ==
  \A c \in Senders :
    (HandledOffline(out, c) /\ c \in DOMAIN _unnamedInstances) =>
      \A x \in _unnamedInstances[c] \ {Undefined}, cl \in Classes :
        instanceTopic(cl, x) \notin subs

\* C6: the agent is subscribed to {c}/__clientInfo__ exactly for the clients c
\* that appear in the anonymous or the named tracker map.
C6_TrackedIffSubscribed ==
  \A c \in Senders :
    (c \in DOMAIN _unnamedInstances \cup DOMAIN _namedInstances)
      <=> (clientInfoTopic(c) \in subs)

\* C7: a handled message that changes the set of named instances of a class
\* publishes the retained class info of that class exactly once, with the
\* instances the adapter then has for the class.
C7_Step ==
  \A c \in Classes :
    (Handled(out') /\ NamedOf(instances, c) # NamedOf(instances', c)) =>
      LET J == {j \in 1..Len(out') : IsClassInfoOf(out'[j], c)}
      IN  /\ Cardinality(J) = 1
          /\ \A j \in J :
               out'[j].message.instances = getAvailableInstances(instances', c)

C7_ClassInfoOnChange == [][C7_Step]_vars

\* C8: the first 'connect' event of the operational client subscribes to every
\* static topic of every class and publishes the online agent info and the
\* class info of every class, whatever events came before it.
C8_Step ==
  (servePromise = "pending" /\ client # "connected" /\ client' = "connected") =>
    /\ \A i \in 1..Len(_generateTopics) :
         \E k \in 1..Len(out') :
           out'[k].op = "subscribe" /\ out'[k].topic = _generateTopics[i]
    /\ \E k \in 1..Len(out') : IsOnlineAgentInfo(out'[k])
    /\ \A c \in Classes : \E k \in 1..Len(out') : IsClassInfoOf(out'[k], c)

C8_FirstConnect == [][C8_Step]_vars

\* C9: a 'connect' event after an earlier successful connect publishes the
\* online agent info once, subscribes to nothing, publishes no class info and
\* leaves the tracker maps as they are; and _isReconnect is false after every
\* handled connect.
C9_Step ==
  (client # "connected" /\ client' = "connected") =>
    /\ ~_isReconnect'
    /\ servePromise = "resolved" =>
         /\ Cardinality({k \in 1..Len(out') : IsOnlineAgentInfo(out'[k])}) = 1
         /\ \A k \in 1..Len(out') :
              /\ out'[k].op # "subscribe"
              /\ ~(out'[k].op = "publish" /\ out'[k].message.kind = "classInfo")
         /\ _unnamedInstances' = _unnamedInstances
         /\ _namedInstances' = _namedInstances

C9_Reconnect == [][C9_Step]_vars

\* C9, witness: the agent is connected again, the last handler published the
\* online agent info and nothing else, and the tracker still holds a client
C9_Witness ==
  /\ client = "connected"
  /\ Len(out) = 2
  /\ IsOnlineAgentInfo(out[1])
  /\ out[2] = [op |-> "emit", event |-> "connect"]
  /\ DOMAIN _unnamedInstances \cup DOMAIN _namedInstances # {}

\* C10: once serve() has been called and the operational client is connected
\* or end() has been called, the promise of serve() eventually resolves.
C10_ServeResolves ==
  (servePromise = "pending" /\ (client = "connected" \/ endPromise # "none"))
    ~> (servePromise = "resolved")

\* a publication that clears a retained slot: the null payload, retained
IsNull(e) == e.op = "publish" /\ e.message = NullMessage /\ e.retain

IsOfflineAgentInfo(e) ==
  /\ e.op = "publish"
  /\ e.topic = agentInfoTopic
  /\ e.message = _createAgentInfoPayload("offline")
  /\ e.retain

\* C11: once end() has returned, no 'connect' event is emitted and no online
\* agent info is published, in whatever state of the session end() was called.
C11_Step ==
  endPromise = "resolved" =>
    \A k \in 1..Len(out') :
      /\ out'[k] # [op |-> "emit", event |-> "connect"]
      /\ ~IsOnlineAgentInfo(out'[k])

C11_NoConnectAfterEnd == [][C11_Step]_vars

\* C12: end() on a connected agent publishes the retained offline agent info
\* first and ends the connection last; with unregister it publishes, between
\* the two, the null message on the agent-info topic and on the class-info
\* topic of every class, once each, and without unregister nothing.  The only
\* other publication on the agent-info topic is the online message of a
\* connect, so that serve() then end() publishes online, then offline.
C12_Step ==
  LET o == out'
      onAgentInfo == {k \in 1..Len(o) : o[k].op = "publish" /\ o[k].topic = agentInfoTopic}
  IN  IF client = "connected" /\ client' = "ending"
      THEN /\ o[1].op = "end"
           /\ IsOfflineAgentInfo(o[2])
           /\ o[Len(o)].op = "client.end"
           /\ IF o[1].unregister
              THEN /\ Len(o) = 4 + Len(ClassList)
                   /\ \A k \in 3..(Len(o) - 1) : IsNull(o[k])
                   /\ {o[k].topic : k \in 3..(Len(o) - 1)}
                        = {agentInfoTopic} \cup {classInfoTopic(c) : c \in Classes}
              ELSE Len(o) = 3
      ELSE IF client # "connected" /\ client' = "connected"
      THEN \E k \in onAgentInfo : onAgentInfo = {k} /\ IsOnlineAgentInfo(o[k])
      ELSE onAgentInfo = {}

C12_EndPublishesOffline == [][C12_Step]_vars

\* C12, witness: end({ unregister: true }) was called on a connected agent; the
\* offline message and the null messages are published
C12_Witness ==
  /\ client = "ending"
  /\ out # <<>>
  /\ out[1] = [op |-> "end", unregister |-> TRUE]
  /\ IsOfflineAgentInfo(out[2])
  /\ IsNull(out[3])

\* the publications of a log to a topic
PublishedTo(o, topic) == {k \in 1..Len(o) : o[k].op = "publish" /\ o[k].topic = topic}

\* the envelopes of a log published to a topic under an id
EnvelopesTo(o, topic, id) ==
  {k \in PublishedTo(o, topic) : IsReply(o[k]) /\ o[k].message.json.id = id}

\* C13: a message on an instance's dispatch topic whose context is not a live
\* instance or whose method is not a function of the instance is answered with
\* exactly one reply to the sender, carrying the error "Could not find
\* context: <name>" or "Could not find function: <method>" in data.e, and
\* leaves the tracker maps and the subscriptions as they were.
C13_Step ==
  LET tokens == Tokens(out'[1].topic)
      ctx == tokens[4]
      method == tokens[5]
      expected == IF ctx \notin DOMAIN instances
                  THEN "Could not find context: " \o ctx
                  ELSE "Could not find function: " \o method
      unknown == \/ ctx \notin DOMAIN instances
                 \/ \A i \in 1..Len(getAvailableMemberFunctions(instances[ctx].className)) :
                      getAvailableMemberFunctions(instances[ctx].className)[i] # method
  IN  (HandledRpc(out') /\ ctx # "__static__" /\ unknown) =>
        /\ \E k \in PublishedTo(out', out'[1].json.sender) :
             /\ PublishedTo(out', out'[1].json.sender) = {k}
             /\ IsReply(out'[k])
             /\ out'[k].message.json.data.e = expected
        /\ UNCHANGED <<_unnamedInstances, _namedInstances, subs>>

C13_UnknownFunctionAnswered == [][C13_Step]_vars

\* C14: the call that creates a deferred result is answered, in its own
\* handling, with the promise tag in data.r; the callback of its argument is
\* published to the sender exactly once, when the deferred result passes from
\* stage 0 to stage 1 (calls that gave the same callback id each get their
\* own), and the resolution exactly once under the promise tag, when it passes
\* from stage 1 to stage 2; a deferred result never goes back, and it reaches
\* stage 2.
C14_Step ==
  /\ DOMAIN deferred \subseteq DOMAIN deferred'
  /\ \A tag \in DOMAIN deferred' :
       LET d == deferred'[tag]
           callbacks == EnvelopesTo(out', d.sender, d.callback)
           resolutions == EnvelopesTo(out', d.sender, tag)
       IN  IF tag \notin DOMAIN deferred
           THEN /\ d.stage = 0
                /\ HandledRpc(out')
                /\ \E k \in PublishedTo(out', d.sender) :
                     /\ PublishedTo(out', d.sender) = {k}
                     /\ IsReply(out'[k])
                     /\ out'[k].message.json.data.r = tag
           ELSE /\ d.stage \in {deferred[tag].stage, deferred[tag].stage + 1}
                /\ Cardinality(callbacks)
                     = Cardinality({t \in DOMAIN deferred :
                                      /\ deferred[t].callback = d.callback
                                      /\ deferred[t].sender = d.sender
                                      /\ deferred[t].stage = 0
                                      /\ deferred'[t].stage = 1})
                /\ Cardinality(resolutions)
                     = IF deferred[tag].stage = 1 /\ d.stage = 2 THEN 1 ELSE 0

C15_Step ==
  LET tokens == Tokens(out'[1].topic)
  IN  ( /\ HandledRpc(out')
        /\ tokens[5] = "cyclic"
        /\ tokens[4] \in DOMAIN instances )
      => /\ \E k \in PublishedTo(out', out'[1].json.sender) :
              /\ PublishedTo(out', out'[1].json.sender) = {k}
              /\ IsReply(out'[k])
              /\ out'[k].message.json.data.r = "__vrpc::not-serializable__"
              /\ out'[k].message.json.data.e = Undefined
         /\ UNCHANGED <<_unnamedInstances, _namedInstances, subs, instances>>

C15_NotSerializableAnswered == [][C15_Step]_vars

\* C15, witness: a reply with the sentinel in data.r was published
C15_Witness ==
  /\ HandledRpc(out)
  /\ \E k \in 1..Len(out) :
       IsReply(out[k]) /\ out[k].message.json.data.r = "__vrpc::not-serializable__"

\* a domain or agent name the constructor must refuse: missing, empty, or
\* with one of the characters + / # *
Refused(s) ==
  \/ s = Undefined
  \/ s = ""
  \/ \E i \in 1..Len(s) : SubSeq(s, i, i) \in {"+", "/", "#", "*"}

\* the log records a connection to the broker being opened
Connects(o) == \E k \in 1..Len(o) : o[k].op = "connect"

\* C16: the constructor fails exactly when the domain or the agent is missing,
\* empty or contains one of + / # *; it then reports an error, and neither
\* before the constructor has run nor after it has failed is the callback sink
\* installed or a broker connection opened; otherwise the agent is constructed
\* with its sink.
C16_Fails ==
  ctor.state # "constructed" =>
    /\ ~ctor.sink
    /\ servePromise = "none"
    /\ cleanClient = "none"
    /\ client = "none"
    /\ ~Connects(out)

C16_Step ==
  (ctor.state = "new" /\ ctor'.state # "new") =>
    /\ ctor'.state = IF Refused(ctor.domain) \/ Refused(ctor.agent)
                     THEN "failed" ELSE "constructed"
    /\ ctor'.state = "failed" => ctor'.error # "" /\ ~ctor'.sink /\ ~Connects(out')
    /\ ctor'.state = "constructed" => ctor'.error = "" /\ ctor'.sink /\ ~Connects(out')
    /\ ctor'.domain = ctor.domain /\ ctor'.agent = ctor.agent

C16_ConstructorValidates == []C16_Fails /\ [][C16_Step]_vars

\* C16, witness: the constructor has refused an agent name with a * after
\* accepting the domain
C16_Witness ==
  /\ ctor.state = "failed"
  /\ ctor.domain = "d"
  /\ ctor.agent = "a*b"
  /\ ctor.error = "The agent must NOT contain any of those characters: \"+\", \"/\", \"#\", \"*\""

\* C17: every publication, every subscription and the last will of every
\* connection carry QoS 0 when bestEffort is set and QoS 1 when it is not.
C17_QosEverywhere ==
  \A k \in 1..Len(out) :
    LET level == IF ctor.bestEffort THEN 0 ELSE 1
    IN  /\ out[k].op \in {"publish", "subscribe"} => out[k].qos = level
        /\ out[k].op = "connect" => out[k].will.qos = level

\* C17, witness: a best-effort agent has published, or subscribed, with QoS 0
C17_Witness ==
  /\ ctor.bestEffort
  /\ \E k \in 1..Len(out) : out[k].op = "publish" /\ out[k].qos = 0
  /\ \E k \in 1..Len(out) : out[k].op = "subscribe" /\ out[k].qos = 0

\* the instances a tracker map holds for client c
HeldIn(map, c) == IF c \in DOMAIN map THEN map[c] ELSE {}

\* the instances the tracker holds for client c in either map
Held(unnamed, named, c) == HeldIn(unnamed, c) \cup HeldIn(named, c)

\* C18: when the handling of a __delete__ removes the last instance the
\* tracker holds for a client, the agent unsubscribes from the client's
\* {clientId}/__clientInfo__ topic and the client is in neither tracker map
\* afterwards.
C18_Step ==
  \A c \in Senders :
    ( /\ HandledRpc(out')
      /\ MethodOf(out') = "__delete__"
      /\ Held(_unnamedInstances, _namedInstances, c) # {}
      /\ Held(_unnamedInstances', _namedInstances', c) = {} )
    => /\ c \notin DOMAIN _unnamedInstances'
       /\ c \notin DOMAIN _namedInstances'
       /\ clientInfoTopic(c) \notin subs'
       /\ \E k \in 1..Len(out') :
            out'[k] = [op |-> "unsubscribe", topic |-> clientInfoTopic(c)]

C18_LastDeleteForgetsClient == [][C18_Step]_vars

\* C19: every instance identifier held in the anonymous or the named tracker
\* map is the identifier of a live instance of the adapter's instance table.
C19_TrackedAreLive ==
  \A c \in DOMAIN _unnamedInstances \cup DOMAIN _namedInstances :
    Held(_unnamedInstances, _namedInstances, c) \subseteq DOMAIN instances

\* C20: when an offline client-info message of client c has been handled, the
\* adapter was asked to drop the event listeners of c and of no one else, and
\* the agent unsubscribed from {c}/__clientInfo__ and from no other topic of
\* that kind.
C20_OfflineAddressesClient ==
  \A c \in Senders :
    HandledOffline(out, c) =>
      /\ \E k \in 1..Len(out) : out[k].op = "unregisterEventListeners"
      /\ \A k \in 1..Len(out) :
           out[k].op = "unregisterEventListeners" => out[k].clientId = c
      /\ \E k \in 1..Len(out) :
           out[k] = [op |-> "unsubscribe", topic |-> clientInfoTopic(c)]
      /\ \A k \in 1..Len(out), other \in Senders \ {c} :
           out[k] # [op |-> "unsubscribe", topic |-> clientInfoTopic(other)]

\* the instance a handled __delete__ names in data._1
Deleted(o) == o[1].json.data.a1

\* o is the log of a handled __delete__
HandledDelete(o) == HandledRpc(o) /\ MethodOf(o) = "__delete__"

\* C21: when a __delete__ of a live instance x of class C has been handled,
\* the agent has unsubscribed from {domain}/{agent}/{C}/{x}/+, the topic it
\* subscribed to when x was created, from no other topic of that shape, and
\* holds no subscription for x afterwards.
C21_Step ==
  (HandledDelete(out') /\ Deleted(out') \in DOMAIN instances) =>
    LET x == Deleted(out')
        C == instances[x].className
    IN  /\ \E k \in 1..Len(out') :
             out'[k] = [op |-> "unsubscribe", topic |-> instanceTopic(C, x)]
        /\ \A k \in 1..Len(out'), cl \in Classes :
             out'[k] # [op |-> "unsubscribe", topic |-> instanceTopic(cl, "__static__")]
        /\ \A cl \in Classes : instanceTopic(cl, x) \notin subs'

C21_DeleteUnsubscribesInstance == [][C21_Step]_vars

\* the positions of a log where a class info is published
ClassInfosIn(o) ==
  {k \in 1..Len(o) : o[k].op = "publish" /\ o[k].message.kind = "classInfo"}

\* C22: after a __delete__ of instance x has been handled, whichever sender
\* issued it, x is in no client's set of the anonymous map and in no client's
\* set of the named map, and a class info was published in that handling
\* exactly when x was held in the named map.
C22_Step ==
  HandledDelete(out') =>
    LET x == Deleted(out')
    IN  /\ \A c \in DOMAIN _unnamedInstances' : x \notin _unnamedInstances'[c]
        /\ \A c \in DOMAIN _namedInstances' : x \notin _namedInstances'[c]
        /\ (ClassInfosIn(out') # {})
             <=> (\E c \in DOMAIN _namedInstances : x \in _namedInstances[c])

C22_DeleteForgetsInstance == [][C22_Step]_vars

\* the positions of a log where topic is subscribed
SubscribesTo(o, topic) ==
  {k \in 1..Len(o) : o[k].op = "subscribe" /\ o[k].topic = topic}

\* the positions of a log where a reply carrying a return value is published
ReturnsIn(o) ==
  {k \in 1..Len(o) : IsReply(o[k]) /\ o[k].message.json.data.r # Undefined}

\* C23: when a __create__ of class C by sender s has been answered with the
\* id x, the agent is subscribed to {domain}/{agent}/{C}/{x}/+, x is in the
\* anonymous map under s, and {s}/__clientInfo__ was subscribed in that
\* handling once when s was in neither tracker map before, not at all when s
\* was in one of them; no other client's topic was subscribed.
C23_Step ==
  (HandledRpc(out') /\ MethodOf(out') = "__create__" /\ ReturnsIn(out') # {}) =>
    LET s == out'[1].json.sender
        C == Tokens(out'[1].topic)[3]
    IN  /\ \A k \in ReturnsIn(out') :
             LET x == out'[k].message.json.data.r
             IN  /\ instanceTopic(C, x) \in subs'
                 /\ s \in DOMAIN _unnamedInstances'
                 /\ x \in _unnamedInstances'[s]
        /\ Cardinality(SubscribesTo(out', clientInfoTopic(s)))
             = IF s \in DOMAIN _unnamedInstances \cup DOMAIN _namedInstances
               THEN 0 ELSE 1
        /\ \A other \in Senders \ {s} : SubscribesTo(out', clientInfoTopic(other)) = {}

C23_CreateTracksInstance == [][C23_Step]_vars

\* C23, witness: a __create__ by a sender already in the named map was
\* answered with an id, now in the anonymous map, and the client info of the
\* sender was not subscribed again
C23_Witness ==
  /\ HandledRpc(out)
  /\ MethodOf(out) = "__create__"
  /\ ReturnsIn(out) # {}
  /\ out[1].json.sender \in DOMAIN _namedInstances
  /\ out[1].json.sender \in DOMAIN _unnamedInstances
  /\ \A k \in ReturnsIn(out) :
       out[k].message.json.data.r \in _unnamedInstances[out[1].json.sender]
  /\ SubscribesTo(out, clientInfoTopic(out[1].json.sender)) = {}

\* the positions of a log where a reply carrying an error is published
ErrorsIn(o) ==
  {k \in 1..Len(o) : IsReply(o[k]) /\ o[k].message.json.data.e # Undefined}

\* C24: when the adapter answers a __create__ or a __createNamed__ with an
\* error, the agent publishes the reply carrying the error and nothing else,
\* subscribes to nothing and leaves both tracker maps as they were.
C24_Step ==
  ( /\ HandledRpc(out')
    /\ MethodOf(out') \in {"__create__", "__createNamed__"}
    /\ ErrorsIn(out') # {} )
  => /\ \A k \in 1..Len(out') :
          /\ out'[k].op # "subscribe"
          /\ out'[k].op = "publish" =>
               k \in ErrorsIn(out') /\ out'[k].topic = out'[1].json.sender
     /\ Cardinality(ErrorsIn(out')) = 1
     /\ UNCHANGED <<_unnamedInstances, _namedInstances, subs>>

C24_FailedCreateHasNoEffect == [][C24_Step]_vars

\* the positions of a log where some topic is subscribed
SubscribesIn(o) == {k \in 1..Len(o) : o[k].op = "subscribe"}

\* C25: a __getNamed__ of name n by sender s that succeeds adds n to the set
\* of s in the named map and nothing else: the anonymous map is unchanged,
\* the only subscription made is that of {s}/__clientInfo__, made exactly when
\* s was in neither map, and no class info is published; when n was already in
\* the set of s, maps and subscriptions are unchanged.  A __getNamed__ that
\* fails changes neither the maps nor the subscriptions.
C25_Step ==
  (HandledRpc(out') /\ MethodOf(out') = "__getNamed__") =>
    LET s == out'[1].json.sender
        n == out'[1].json.data.a1
        tracked == s \in DOMAIN _unnamedInstances \cup DOMAIN _namedInstances
    IN  /\ ClassInfosIn(out') = {}
        /\ _unnamedInstances' = _unnamedInstances
        /\ IF ReturnsIn(out') # {}
           THEN /\ _namedInstances'
                     = MapSet(_namedInstances, s, HeldIn(_namedInstances, s) \cup {n})
                /\ SubscribesIn(out') = SubscribesTo(out', clientInfoTopic(s))
                /\ Cardinality(SubscribesIn(out')) = IF tracked THEN 0 ELSE 1
                /\ subs' = IF tracked THEN subs ELSE subs \cup {clientInfoTopic(s)}
                /\ n \in HeldIn(_namedInstances, s) =>
                     UNCHANGED <<_unnamedInstances, _namedInstances, subs>>
           ELSE /\ ErrorsIn(out') # {}
                /\ SubscribesIn(out') = {}
                /\ UNCHANGED <<_namedInstances, subs>>

C25_GetNamedOnlyTracks == [][C25_Step]_vars

\* C25, witness: a __getNamed__ by a sender new to both maps has succeeded:
\* the name is in the sender's set of the named map and the sender's client
\* info was subscribed in that handling
C25_Witness ==
  /\ HandledRpc(out)
  /\ MethodOf(out) = "__getNamed__"
  /\ ReturnsIn(out) # {}
  /\ out[1].json.data.a1 \in HeldIn(_namedInstances, out[1].json.sender)
  /\ out[1].json.sender \notin DOMAIN _unnamedInstances
  /\ SubscribesTo(out, clientInfoTopic(out[1].json.sender)) # {}

\* a clean-session client is open: it was opened and its end() has not completed
CleanOpen(c) == c \in {"connecting", "ending"}

\* the operational client is open
ClientOpen(c) == c \in {"connecting", "connected", "closed", "reconnecting", "ending"}

\* the log records a connection being opened with the given clean flag
Opens(o, clean) == \E k \in 1..Len(o) : o[k].op = "connect" /\ o[k].clean = clean

\* C26: the operational connection (clean = false) is opened only in the step
\* in which the end of serve()'s clean-session client completes, and only when
\* end() has not been called; the final clean-session connection of end() is
\* opened only in the step in which the end of the operational client
\* completes; and of the three connections at most one is open at any time.
C26_OneOpen ==
  Cardinality({i \in 1..3 :
                 <<CleanOpen(cleanClient), ClientOpen(client), CleanOpen(finalClient)>>[i]})
    <= 1

C26_Step ==
  /\ Opens(out', FALSE) =>
       /\ cleanClient = "ending" /\ cleanClient' = "ended"
       /\ endPromise = "none"
       /\ client = "none" /\ client' = "connecting"
  /\ (Opens(out', TRUE) /\ servePromise # "none") =>
       /\ client = "ending" /\ client' = "ended"
       /\ cleanClient = "ended"
       /\ finalClient = "none" /\ finalClient' = "connecting"
  /\ (client = "none" /\ client' # "none") => Opens(out', FALSE)
  /\ (finalClient = "none" /\ finalClient' # "none") => Opens(out', TRUE)
  /\ (endPromise # "none" /\ client = "none") => client' = "none"

C26_ConnectionsInTurn == []C26_OneOpen /\ [][C26_Step]_vars

\* C26, witness: end() has opened its final clean-session connection after
\* the operational client, itself opened after serve()'s cleanup, has ended
C26_Witness ==
  /\ cleanClient = "ended"
  /\ client = "ended"
  /\ finalClient = "connecting"
  /\ Opens(out, TRUE)

\* the live anonymous instances of an instance table
Anonymous(inst) == {x \in DOMAIN inst : ~inst[x].named}

\* the clients under which a tracker map holds instance x
Holders(map, x) == {c \in DOMAIN map : x \in map[c]}

\* C27: each live anonymous instance is held in the anonymous map under
\* exactly one client and under no client of the named map; that client is the
\* sender of the __create__ that returned the instance, and it does not change
\* while the instance lives.
C27_OneOwner ==
  \A x \in Anonymous(instances) :
    /\ Cardinality(Holders(_unnamedInstances, x)) = 1
    /\ Holders(_namedInstances, x) = {}

C27_Step ==
  /\ \A x \in Anonymous(instances') \ DOMAIN instances :
       /\ HandledRpc(out')
       /\ MethodOf(out') = "__create__"
       /\ Holders(_unnamedInstances', x) = {out'[1].json.sender}
  /\ \A x \in Anonymous(instances') \cap Anonymous(instances) :
       Holders(_unnamedInstances', x) = Holders(_unnamedInstances, x)

C27_AnonymousHasOneOwner == []C27_OneOwner /\ [][C27_Step]_vars

\* C27, amended: each live anonymous instance is held in the anonymous map
\* under exactly one client, the sender of the __create__ that returned it,
\* for as long as it lives; a client comes to hold it in the named map only
\* by a __getNamed__ or a __createNamed__ of its own that names the instance.
C27_AnonymousOwner ==
  \A x \in Anonymous(instances) : Cardinality(Holders(_unnamedInstances, x)) = 1

C27_AttachStep ==
  \A x \in Anonymous(instances') :
    Holders(_namedInstances', x) # Holders(_namedInstances, x) =>
      /\ HandledRpc(out')
      /\ MethodOf(out') \in {"__getNamed__", "__createNamed__"}
      /\ out'[1].json.data.a1 = x
      /\ Holders(_namedInstances', x)
           = Holders(_namedInstances, x) \cup {out'[1].json.sender}

C27_AnonymousOwnedAndAttached ==
  []C27_AnonymousOwner /\ [][C27_Step /\ C27_AttachStep]_vars

\* C27, witness: a live anonymous instance is held by its creator in the
\* anonymous map and by another client in the named map
C27_Witness ==
  \E x \in Anonymous(instances), s \in DOMAIN _unnamedInstances, t \in DOMAIN _namedInstances :
    /\ s # t
    /\ Holders(_unnamedInstances, x) = {s}
    /\ x \in _namedInstances[t]

\* the topic of a handled message is a client-info topic of four tokens
OnClientInfoTopic(o) ==
  Len(Tokens(o[1].topic)) = 4 /\ Tokens(o[1].topic)[4] = "__clientInfo__"

\* C28: a message on a topic of four tokens ending in __clientInfo__ is
\* handled as a presence message only: the adapter is called for the deletions
\* of the offline handling and for nothing else, and nothing is published; when
\* its status is not "offline", and for a message on any other topic that has
\* not exactly five tokens, nothing is done at all: no adapter call, no
\* publication, no change of the subscriptions, the tracker maps or the
\* instance table.
C28_Step ==
  Handled(out') =>
    /\ OnClientInfoTopic(out') =>
         /\ \A k \in 1..Len(out') :
              /\ out'[k].op # "publish"
              /\ out'[k].op = "call" =>
                   out'[k].context = Undefined /\ out'[k].method = "__delete__"
         /\ out'[1].json.status # "offline" =>
              /\ Len(out') = 1
              /\ UNCHANGED <<_unnamedInstances, _namedInstances, subs, instances>>
    /\ (~OnClientInfoTopic(out') /\ Len(Tokens(out'[1].topic)) # 5) =>
         /\ Len(out') = 1
         /\ UNCHANGED <<_unnamedInstances, _namedInstances, subs, instances>>

C28_RoutingByTopicShape == [][C28_Step]_vars

\* C28, witness: a message that arrived on a subscribed topic of three tokens
\* was ignored while the agent tracks instances
C28_Witness ==
  /\ Handled(out)
  /\ Len(Tokens(out[1].topic)) = 3
  /\ out[1].topic \in subs
  /\ Len(out) = 1
  /\ DOMAIN _unnamedInstances # {}

====
